---- MODULE Spec2Model ----
(***************************************************************************)
(* goto, the URL shortener: the URLStore of the goroutine/channel version  *)
(* (versions/3.md) behind main.go.  The store is a map guarded by an       *)
(* RWMutex, a buffered channel of records, one saveLoop goroutine that     *)
(* gob-encodes the records to the data file, and load, which gob-decodes   *)
(* the file into the map when the store is made.                           *)
(*                                                                         *)
(* The process can exit at any moment (Stop) and be started again on the   *)
(* same file; the file is the only state that survives.                    *)
(*                                                                         *)
(* Get, Set and Count are the methods of the struct with the mu field      *)
(* (store.go 94-113 and 151-155): the lock is taken and released in        *)
(* separate steps, the map is read or written in the step that releases    *)
(* it.  main.go calls only Get (Redirect) and Put (Add); Count is called   *)
(* inside Put.                                                             *)
(***************************************************************************)
EXTENDS Naturals, Sequences, FiniteSets, TLC

\* ------------------------------------------------------------------ bounds
NumClients == 2        \* request goroutines served at the same time
MaxPuts == 3           \* Put calls over the whole behaviour
MaxRestarts == 2       \* process exits followed by a new start
MaxFails == 1          \* appends that fail over the whole behaviour
saveQueueLength == 2   \* buffer of the save channel (1000 in the program)

Clients == 1..NumClients
Urls == {"u1", "u2"}

\* ------------------------------------------------------------ key generator
\* key.go is not among the sources.  genKey writes the ordinal in positional
\* notation over keyChar, most significant digit first; genKey(0) is the
\* first character.
keyChar ==
  << "a", "b", "c", "d", "e", "f", "g", "h", "i", "j", "k", "l", "m",
     "n", "o", "p", "q", "r", "s", "t", "u", "v", "w", "x", "y", "z",
     "A", "B", "C", "D", "E", "F", "G", "H", "I", "J", "K", "L", "M",
     "N", "O", "P", "Q", "R", "S", "T", "U", "V", "W", "X", "Y", "Z",
     "0", "1", "2", "3", "4", "5", "6", "7", "8", "9" >>

RECURSIVE digits(_)
digits(n) ==
  IF n = 0 THEN "" ELSE digits(n \div Len(keyChar)) \o keyChar[(n % Len(keyChar)) + 1]

genKey(n) == IF n = 0 THEN keyChar[1] ELSE digits(n)

\* Keys a request may ask for: the first generated one and one never generated.
AskKeys == {genKey(0), "nonexistent"}

\* ------------------------------------------------------------------ the map
\* map[string]string: a function from the keys present to their URLs.
EmptyMap == [k \in {} |-> ""]

\* Get that answers an absent key with the key itself instead of "".
GetEcho(m, key) == IF key \in DOMAIN m THEN m[key] ELSE key

\* s.urls[key]: the zero value "" when the key is absent.
Get(m, key) == IF key \in DOMAIN m THEN m[key] ELSE ""

\* A count that is one too many.
CountPlusOne(m) == Cardinality(DOMAIN m) + 1

\* len(s.urls)
Count(m) == Cardinality(DOMAIN m)

\* The test for presence left out: no key is ever found present.
PresentNever(m, key) == FALSE

\* _, present := s.urls[key]
Present(m, key) == key \in DOMAIN m

\* Set without the test for presence: a present key is overwritten.
SetOverwrite(m, key, url) ==
  [k \in DOMAIN m \cup {key} |-> IF k = key THEN url ELSE m[k]]

\* Set that inserts into a fresh map: the pairs stored before are lost.
SetAlone(m, key, url) ==
  IF Present(m, key) THEN m ELSE [k \in {key} |-> url]

\* The map after Set(key, url): unchanged when the key is present.
Set(m, key, url) ==
  IF Present(m, key)
    THEN m
    ELSE [k \in DOMAIN m \cup {key} |-> IF k = key THEN url ELSE m[k]]

\* ------------------------------------------------------------- the gob file
\* The file is a gob stream: a sequence of messages.  The first Encode of an
\* Encoder sends the descriptor of type record before the value; a Decoder
\* that receives the descriptor of a type it already knows fails ("duplicate
\* type received"), one that receives a value of a type it does not know
\* fails, and so does one that meets bytes cut off by a short write.
TypeMsg == [t |-> "type", key |-> "", url |-> ""]
BadMsg == [t |-> "bad", key |-> "", url |-> ""]
RecMsg(r) == [t |-> "rec", key |-> r[1], url |-> r[2]]

NoRecord == <<"", "">>
record(key, url) == <<key, url>>

\* e.Encode(r) on an encoder that has (sent) or has not yet sent the type.
Encode(sentType, r) == (IF sentType THEN <<>> ELSE <<TypeMsg>>) \o <<RecMsg(r)>>

\* d.Decode(&r) at position pos of file f, the decoder knowing the type or
\* not: the error, the record, the new position and the decoder's knowledge.
RECURSIVE Decode(_, _, _)
Decode(f, pos, seen) ==
  IF pos >= Len(f)
    THEN [err |-> "EOF", r |-> NoRecord, pos |-> pos, seen |-> seen]
    ELSE LET m == f[pos + 1] IN
      CASE m.t = "type" ->
             IF seen
               THEN [err |-> "err", r |-> NoRecord, pos |-> pos, seen |-> seen]
               ELSE Decode(f, pos + 1, TRUE)
        [] m.t = "rec" ->
             IF seen
               THEN [err |-> "nil", r |-> record(m.key, m.url), pos |-> pos + 1, seen |-> seen]
               ELSE [err |-> "err", r |-> NoRecord, pos |-> pos, seen |-> seen]
        [] OTHER -> [err |-> "err", r |-> NoRecord, pos |-> pos, seen |-> seen]

\* load that stores a decoded url under a newly generated key, as Put does.
loadRecordAsPut(m, r) == Set(m, genKey(Count(m)), r[2])

\* load: if err = d.Decode(&r); err == nil { s.Set(r.Key, r.URL) }
loadRecord(m, r) == Set(m, r[1], r[2])

\* The map load leaves when it runs over file f from position pos on map m:
\* the loop for err == nil { ... } run to its end.
RECURSIVE loadFrom(_, _, _, _)
loadFrom(f, pos, seen, m) ==
  LET d == Decode(f, pos, seen) IN
    IF d.err = "nil" THEN loadFrom(f, d.pos, d.seen, loadRecord(m, d.r)) ELSE m

\* One replay of file f, with a decoder of its own, into map m.
Replay(f, m) == loadFrom(f, 0, FALSE, m)

\* A file that one decoder reads to its end: empty, or one descriptor
\* followed by records only.
WellFormed(f) ==
  \/ f = <<>>
  \/ /\ f[1].t = "type"
     /\ Len(f) >= 2
     /\ \A i \in 2..Len(f) : f[i].t = "rec"

\* ------------------------------------------------------------------- state
VARIABLES
  phase,      \* "Uninitialized", "Loading", "Ready", "Fatal"
  openable,   \* whether the data file can be opened or created in this run
  urls,       \* s.urls
  readers,    \* s.mu: the goroutines holding the read lock
  wlock,      \* s.mu: whether the write lock is held
  save,       \* s.save: the records buffered in the channel
  log,        \* the data file: a sequence of gob messages
  logStart,   \* length of the file when this run started
  lpos,       \* load: position of the decoder in the file
  lseen,      \* load: whether the decoder knows type record
  lerr,       \* load: err of the decoding loop ("nil" while it runs)
  wpc,        \* saveLoop: "none", "open", "recv", "encode"
  wrec,       \* saveLoop: the record r taken from the channel
  esent,      \* saveLoop: whether the encoder has sent type record
  pc,         \* per request goroutine: where it is
  arg,        \* per request goroutine: the url of Put or the key of Get
  cnt,        \* per request goroutine: the value Count() returned
  ret,        \* per request goroutine: the string Get returned
  inserted,   \* records of the Sets that succeeded inside Put in this run, in order
  returned,   \* the record of every Put that sent it and returned in this run, in order
  count0,     \* Count() when this run became Ready
  failed,     \* the records whose append failed in this run
  prior,      \* <<key, url>> returned by a Put and appended in an earlier run
  restarts,   \* process exits so far
  nputs,      \* Put calls so far
  nfails      \* failed appends so far

vars ==
  << phase, openable, urls, readers, wlock, save, log, logStart, lpos, lseen,
     lerr, wpc, wrec, esent, pc, arg, cnt, ret, inserted, returned, count0,
     failed, prior, restarts, nputs, nfails >>

storeVars == <<urls, readers, wlock>>
loadVars == <<lpos, lseen, lerr>>
writerVars == <<wpc, wrec, esent>>
clientVars == <<pc, arg, cnt, ret>>
histVars == <<inserted, returned, count0, failed, prior, restarts, nputs, nfails>>

\* The records among the messages of a file.
RECURSIVE Records(_)
Records(f) ==
  IF f = <<>> THEN <<>>
  ELSE (IF Head(f).t = "rec" THEN <<record(Head(f).key, Head(f).url)>> ELSE <<>>)
         \o Records(Tail(f))

Range(s) == {s[i] : i \in DOMAIN s}

\* The records appended to the file in this run.
RunRecords == Records(SubSeq(log, logStart + 1, Len(log)))

Init ==
  /\ phase = "Uninitialized"
  /\ openable = TRUE
  /\ urls = EmptyMap
  /\ readers = {}
  /\ wlock = FALSE
  /\ save = <<>>
  /\ log = <<>>
  /\ logStart = 0
  /\ lpos = 0
  /\ lseen = FALSE
  /\ lerr = "nil"
  /\ wpc = "none"
  /\ wrec = NoRecord
  /\ esent = FALSE
  /\ pc = [c \in Clients |-> "idle"]
  /\ arg = [c \in Clients |-> ""]
  /\ cnt = [c \in Clients |-> 0]
  /\ ret = [c \in Clients |-> ""]
  /\ inserted = <<>>
  /\ returned = <<>>
  /\ count0 = 0
  /\ failed = {}
  /\ prior = {}
  /\ restarts = 0
  /\ nputs = 0
  /\ nfails = 0

\* ------------------------------------------------------------ construction
\* NewURLStore(filename): the struct literal; load is entered.  Whether the
\* file can be opened in this run is the environment's choice.  load(filename)
\* opens the file itself (the file handle is gone from the struct); when it
\* cannot, it returns the error before decoding anything.
NewURLStore(o) ==
  /\ phase = "Uninitialized"
  /\ phase' = "Loading"
  /\ openable' = o
  /\ urls' = EmptyMap
  /\ save' = <<>>
  /\ logStart' = Len(log)
  /\ lpos' = 0
  /\ lseen' = FALSE
  /\ lerr' = IF o THEN "nil" ELSE "err"
  /\ UNCHANGED <<readers, wlock, log, writerVars, clientVars, histVars>>

\* load that throws the map away when decoding fails.
loadDiscard ==
  /\ phase = "Loading"
  /\ lerr = "nil"
  /\ LET d == Decode(log, lpos, lseen) IN
       /\ lerr' = d.err
       /\ lpos' = d.pos
       /\ lseen' = d.seen
       /\ urls' = CASE d.err = "nil" -> loadRecord(urls, d.r)
                    [] d.err = "err" -> EmptyMap
                    [] OTHER -> urls
  /\ UNCHANGED <<phase, openable, readers, wlock, save, log, logStart,
                 writerVars, clientVars, histVars>>

\* One turn of load's loop: for err == nil { Decode; if err == nil { Set } }.
load ==
  /\ phase = "Loading"
  /\ lerr = "nil"
  /\ LET d == Decode(log, lpos, lseen) IN
       /\ lerr' = d.err
       /\ lpos' = d.pos
       /\ lseen' = d.seen
       /\ urls' = IF d.err = "nil" THEN loadRecord(urls, d.r) ELSE urls
  /\ UNCHANGED <<phase, openable, readers, wlock, save, log, logStart,
                 writerVars, clientVars, histVars>>

\* go s.saveLoop(filename) and return s without waiting for load to end.
StartSaveLoopEarly ==
  /\ phase = "Loading"
  /\ phase' = "Ready"
  /\ wpc' = "open"
  /\ count0' = Count(urls)
  /\ UNCHANGED <<openable, storeVars, save, log, logStart, loadVars, wrec,
                 esent, clientVars, inserted, returned, failed, prior, restarts,
                 nputs, nfails>>

\* load has returned (its error is only logged): go s.saveLoop(filename);
\* return s.  main then serves requests.
StartSaveLoop ==
  /\ phase = "Loading"
  /\ lerr # "nil"
  /\ phase' = "Ready"
  /\ wpc' = "open"
  /\ count0' = Count(urls)
  /\ UNCHANGED <<openable, storeVars, save, log, logStart, loadVars, wrec,
                 esent, clientVars, inserted, returned, failed, prior, restarts,
                 nputs, nfails>>

\* ---------------------------------------------------------------- saveLoop
\* os.OpenFile(filename, O_WRONLY|O_CREATE|O_APPEND); log.Fatal ends the
\* process when it fails; otherwise e := gob.NewEncoder(f).
saveLoopOpen ==
  /\ phase = "Ready"
  /\ wpc = "open"
  /\ IF openable
       THEN /\ wpc' = "recv"
            /\ esent' = FALSE
            /\ phase' = phase
       ELSE /\ wpc' = "none"
            /\ esent' = esent
            /\ phase' = "Fatal"
  /\ UNCHANGED <<openable, storeVars, save, log, logStart, loadVars, wrec,
                 clientVars, histVars>>

\* A receive that takes the record sent last instead of the one sent first.
saveLoopRecvLast ==
  /\ phase = "Ready"
  /\ wpc = "recv"
  /\ save # <<>>
  /\ wrec' = save[Len(save)]
  /\ save' = SubSeq(save, 1, Len(save) - 1)
  /\ wpc' = "encode"
  /\ UNCHANGED <<phase, openable, storeVars, log, logStart, loadVars, esent,
                 clientVars, histVars>>

\* r := <-s.save
saveLoopRecv ==
  /\ phase = "Ready"
  /\ wpc = "recv"
  /\ save # <<>>
  /\ wrec' = Head(save)
  /\ save' = Tail(save)
  /\ wpc' = "encode"
  /\ UNCHANGED <<phase, openable, storeVars, log, logStart, loadVars, esent,
                 clientVars, histVars>>

\* What e.Encode(r) leaves in the file: the whole message when it succeeds;
\* when it fails, nothing, or the bytes of a short write.
Written(outcome, sentType, r) ==
  CASE outcome = "ok" -> Encode(sentType, r)
    [] outcome = "short" -> <<BadMsg>>
    [] OTHER -> <<>>

\* saveLoop without its for: it ends after the first record.
saveLoopEncodeOnce(outcome) ==
  /\ phase = "Ready"
  /\ wpc = "encode"
  /\ outcome # "ok" => nfails < MaxFails
  /\ log' = log \o Written(outcome, esent, wrec)
  /\ esent' = (esent \/ outcome = "ok")
  /\ nfails' = IF outcome = "ok" THEN nfails ELSE nfails + 1
  /\ failed' = IF outcome = "ok" THEN failed ELSE failed \cup {wrec}
  /\ wrec' = NoRecord
  /\ wpc' = "none"
  /\ UNCHANGED <<phase, openable, storeVars, save, logStart, loadVars,
                 clientVars, inserted, returned, count0, prior, restarts, nputs>>

\* saveLoop that returns when Encode fails.
saveLoopEncodeOrReturn(outcome) ==
  /\ phase = "Ready"
  /\ wpc = "encode"
  /\ outcome # "ok" => nfails < MaxFails
  /\ log' = log \o Written(outcome, esent, wrec)
  /\ esent' = (esent \/ outcome = "ok")
  /\ nfails' = IF outcome = "ok" THEN nfails ELSE nfails + 1
  /\ failed' = IF outcome = "ok" THEN failed ELSE failed \cup {wrec}
  /\ wrec' = NoRecord
  /\ wpc' = IF outcome = "ok" THEN "recv" ELSE "none"
  /\ UNCHANGED <<phase, openable, storeVars, save, logStart, loadVars,
                 clientVars, inserted, returned, count0, prior, restarts, nputs>>

\* if err := e.Encode(r); err != nil { log.Println(...) }; the loop goes on.
saveLoopEncode(outcome) ==
  /\ phase = "Ready"
  /\ wpc = "encode"
  /\ outcome # "ok" => nfails < MaxFails
  /\ log' = log \o Written(outcome, esent, wrec)
  /\ esent' = (esent \/ outcome = "ok")
  /\ nfails' = IF outcome = "ok" THEN nfails ELSE nfails + 1
  /\ failed' = IF outcome = "ok" THEN failed ELSE failed \cup {wrec}
  /\ wrec' = NoRecord
  /\ wpc' = "recv"
  /\ UNCHANGED <<phase, openable, storeVars, save, logStart, loadVars,
                 clientVars, inserted, returned, count0, prior, restarts, nputs>>

\* ---------------------------------------------------------------- requests
\* Put(url) is entered: the top of its for loop.
CallPut(c, url) ==
  /\ phase = "Ready"
  /\ pc[c] = "idle"
  /\ nputs < MaxPuts
  /\ pc' = [pc EXCEPT ![c] = "put"]
  /\ arg' = [arg EXCEPT ![c] = url]
  /\ nputs' = nputs + 1
  /\ UNCHANGED <<phase, openable, storeVars, save, log, logStart, loadVars,
                 writerVars, cnt, ret, inserted, returned, count0, failed, prior,
                 restarts, nfails>>

\* s.mu.RLock() of a reader: no writer holds the lock.
RLock(c) ==
  /\ ~wlock
  /\ readers' = readers \cup {c}

\* s.mu.RUnlock()
RUnlock(c) == readers' = readers \ {c}

\* A lock whose Lock() does not wait for the readers to leave.
LockNoWait ==
  /\ ~wlock
  /\ wlock' = TRUE

\* s.mu.Lock(): no writer and no reader holds the lock.
Lock ==
  /\ ~wlock
  /\ readers = {}
  /\ wlock' = TRUE

\* An Unlock that is left out: the write lock stays held after Set returns.
UnlockLeftOut == wlock' = wlock

\* s.mu.Unlock()
Unlock == wlock' = FALSE

\* Put: s.Count() takes the read lock.
PutCountLock(c) ==
  /\ phase = "Ready"
  /\ pc[c] = "put"
  /\ RLock(c)
  /\ pc' = [pc EXCEPT ![c] = "put_count"]
  /\ UNCHANGED <<phase, openable, urls, wlock, save, log, logStart, loadVars,
                 writerVars, arg, cnt, ret, histVars>>

\* Put: s.Count() returns len(s.urls) and releases the read lock.
PutCount(c) ==
  /\ phase = "Ready"
  /\ pc[c] = "put_count"
  /\ cnt' = [cnt EXCEPT ![c] = Count(urls)]
  /\ RUnlock(c)
  /\ pc' = [pc EXCEPT ![c] = "put_key"]
  /\ UNCHANGED <<phase, openable, urls, wlock, save, log, logStart, loadVars,
                 writerVars, arg, ret, histVars>>

\* Put: key := genKey(n); s.Set(key, url) takes the write lock.
PutSetLock(c) ==
  /\ phase = "Ready"
  /\ pc[c] = "put_key"
  /\ Lock
  /\ pc' = [pc EXCEPT ![c] = "put_set"]
  /\ UNCHANGED <<phase, openable, urls, readers, save, log, logStart, loadVars,
                 writerVars, arg, cnt, ret, histVars>>

\* Put: Set checks and inserts, releases the lock and returns; on false the
\* for loop starts over.
PutSet(c) ==
  /\ phase = "Ready"
  /\ pc[c] = "put_set"
  /\ LET key == genKey(cnt[c]) IN
       /\ urls' = Set(urls, key, arg[c])
       /\ pc' = [pc EXCEPT ![c] = IF Present(urls, key) THEN "put" ELSE "put_send"]
       /\ inserted' = IF Present(urls, key) THEN inserted
                                            ELSE Append(inserted, record(key, arg[c]))
  /\ Unlock
  /\ UNCHANGED <<phase, openable, readers, save, log, logStart, loadVars,
                 writerVars, arg, cnt, ret, returned, count0, failed, prior,
                 restarts, nputs, nfails>>

\* A send that does not block: select { case s.save <- r: default: }, the
\* record given up when the buffer is full.
PutSendOrDrop(c) ==
  /\ phase = "Ready"
  /\ pc[c] = "put_send"
  /\ LET key == genKey(cnt[c]) IN
       /\ save' = IF Len(save) < saveQueueLength
                     THEN Append(save, record(key, arg[c])) ELSE save
       /\ returned' = Append(returned, record(key, arg[c]))
  /\ pc' = [pc EXCEPT ![c] = "idle"]
  /\ arg' = [arg EXCEPT ![c] = ""]
  /\ cnt' = [cnt EXCEPT ![c] = 0]
  /\ UNCHANGED <<phase, openable, storeVars, log, logStart, loadVars,
                 writerVars, ret, inserted, count0, failed, prior, restarts, nputs,
                 nfails>>

\* Put: s.save <- record{key, url} blocks while the buffer is full; return key.
PutSend(c) ==
  /\ phase = "Ready"
  /\ pc[c] = "put_send"
  /\ Len(save) < saveQueueLength
  /\ LET key == genKey(cnt[c]) IN
       /\ save' = Append(save, record(key, arg[c]))
       /\ returned' = Append(returned, record(key, arg[c]))
  /\ pc' = [pc EXCEPT ![c] = "idle"]
  /\ arg' = [arg EXCEPT ![c] = ""]
  /\ cnt' = [cnt EXCEPT ![c] = 0]
  /\ UNCHANGED <<phase, openable, storeVars, log, logStart, loadVars,
                 writerVars, ret, inserted, count0, failed, prior, restarts, nputs,
                 nfails>>

\* Get(key) is entered and takes the read lock.
CallGet(c, key) ==
  /\ phase = "Ready"
  /\ pc[c] = "idle"
  /\ RLock(c)
  /\ pc' = [pc EXCEPT ![c] = "get_read"]
  /\ arg' = [arg EXCEPT ![c] = key]
  /\ UNCHANGED <<phase, openable, urls, wlock, save, log, logStart, loadVars,
                 writerVars, cnt, ret, histVars>>

\* Get: return s.urls[key], the read lock released on the way out.
GetRead(c) ==
  /\ phase = "Ready"
  /\ pc[c] = "get_read"
  /\ ret' = [ret EXCEPT ![c] = Get(urls, arg[c])]
  /\ RUnlock(c)
  /\ pc' = [pc EXCEPT ![c] = "get_ret"]
  /\ UNCHANGED <<phase, openable, urls, wlock, save, log, logStart, loadVars,
                 writerVars, arg, cnt, histVars>>

\* Redirect has used what Get returned.
Return(c) ==
  /\ phase = "Ready"
  /\ pc[c] = "get_ret"
  /\ pc' = [pc EXCEPT ![c] = "idle"]
  /\ arg' = [arg EXCEPT ![c] = ""]
  /\ cnt' = [cnt EXCEPT ![c] = 0]
  /\ ret' = [ret EXCEPT ![c] = ""]
  /\ UNCHANGED <<phase, openable, storeVars, save, log, logStart, loadVars,
                 writerVars, histVars>>

\* ------------------------------------------------------------ process exit
\* The process ends abruptly (or has ended in log.Fatal) and is started anew:
\* the map, the lock, the channel and every goroutine are gone, the file stays.
Stop ==
  /\ phase \in {"Loading", "Ready", "Fatal"}
  /\ restarts < MaxRestarts
  /\ phase' = "Uninitialized"
  /\ restarts' = restarts + 1
  /\ prior' = prior \cup {r \in Range(returned) : r \in Range(RunRecords)}
  /\ urls' = EmptyMap
  /\ readers' = {}
  /\ wlock' = FALSE
  /\ save' = <<>>
  /\ lpos' = 0
  /\ lseen' = FALSE
  /\ lerr' = "nil"
  /\ wpc' = "none"
  /\ wrec' = NoRecord
  /\ esent' = FALSE
  /\ pc' = [c \in Clients |-> "idle"]
  /\ arg' = [c \in Clients |-> ""]
  /\ cnt' = [c \in Clients |-> 0]
  /\ ret' = [c \in Clients |-> ""]
  /\ inserted' = <<>>
  /\ returned' = <<>>
  /\ failed' = {}
  /\ count0' = 0
  /\ UNCHANGED <<openable, log, logStart, nputs, nfails>>

\* ------------------------------------------------------------ specification
Client(c) ==
  \/ \E url \in Urls : CallPut(c, url)
  \/ PutCountLock(c)
  \/ PutCount(c)
  \/ PutSetLock(c)
  \/ PutSet(c)
  \/ PutSend(c)
  \/ \E key \in AskKeys : CallGet(c, key)
  \/ GetRead(c)
  \/ Return(c)

saveLoop ==
  \/ saveLoopOpen
  \/ saveLoopRecv
  \/ \E outcome \in {"ok", "short", "none"} : saveLoopEncode(outcome)

\* The steps inside Put, from its entry to its return.
PutStep(c) ==
  \/ PutCountLock(c)
  \/ PutCount(c)
  \/ PutSetLock(c)
  \/ PutSet(c)
  \/ PutSend(c)

Next ==
  \/ \E o \in BOOLEAN : NewURLStore(o)
  \/ load
  \/ StartSaveLoop
  \/ saveLoop
  \/ \E c \in Clients : Client(c)
  \/ Stop

Spec == Init /\ [][Next]_vars

\* The steps of a request that has been entered.
Step(c) ==
  \/ PutStep(c)
  \/ GetRead(c)
  \/ Return(c)

\* The scheduler runs every goroutine that can run: saveLoop is not starved,
\* and a request that can take a step again and again (the RWMutex hands the
\* lock to a waiter) takes it.  Nothing makes a new request arrive or the
\* process end.
Fairness ==
  /\ WF_vars(saveLoop)
  /\ \A c \in Clients : SF_vars(Step(c))

FairSpec == Init /\ [][Next]_vars /\ Fairness

\* saveLoop alone is scheduled fairly; nothing is assumed of the requests.
WriterFairSpec == Init /\ [][Next]_vars /\ WF_vars(saveLoop)

\* ------------------------------------------------------------------ claims
InPut(c) == pc[c] \in {"put", "put_count", "put_key", "put_set", "put_send"}

Keys(recs) == {recs[i][1] : i \in DOMAIN recs}

Distinct(recs) == \A i, j \in DOMAIN recs : recs[i][1] = recs[j][1] => i = j

\* C2: in every Ready state, for every record (k, v) of a Put that has
\* returned, Get(k) is v, whether or not saveLoop has taken the record from
\* the channel or appended it.
C2_GetAfterPut ==
  phase = "Ready" =>
    \A i \in DOMAIN returned : Get(urls, returned[i][1]) = returned[i][2]

\* A Put has returned k, its record is still in the channel and not in the
\* file, and Get(k) is its url.
C2_Witness ==
  /\ phase = "Ready"
  /\ \E i \in DOMAIN returned :
       /\ returned[i] \in Range(save)
       /\ returned[i] \notin Range(Records(log))
       /\ Get(urls, returned[i][1]) = returned[i][2]

\* C5: in the first run, on a store started from the empty file, whenever no
\* Put is under way the keys of the N Puts that have returned are pairwise
\* distinct and Count() is N.
C5_SequentialPuts ==
  (phase = "Ready" /\ restarts = 0 /\ \A c \in Clients : ~InPut(c)) =>
    /\ Distinct(returned)
    /\ Count(urls) = Len(returned)

\* In the first run two Puts have returned and none is under way.
C5_Witness ==
  /\ phase = "Ready"
  /\ restarts = 0
  /\ \A c \in Clients : ~InPut(c)
  /\ Len(returned) >= 2
  /\ Count(urls) = Len(returned)

\* C8: when load has ended on a file whose last message is cut off and whose
\* messages before it are one well-formed stream, it has stopped at that
\* message with an error, every record before it is in the map, nothing else
\* is, and NewURLStore goes on to start saveLoop and return (Ready).
C8_TruncatedTail ==
  ( /\ phase = "Loading"
    /\ openable
    /\ lerr # "nil"
    /\ log # <<>>
    /\ log[Len(log)].t = "bad"
    /\ WellFormed(SubSeq(log, 1, Len(log) - 1)) ) =>
      /\ lerr = "err"
      /\ lpos = Len(log) - 1
      /\ \A r \in Range(Records(log)) : Get(urls, r[1]) = r[2]
      /\ DOMAIN urls = Keys(Records(log))
      /\ ENABLED StartSaveLoop

\* load has ended on a file made of a descriptor, a record and a cut-off
\* message, and the record is in the map.
C8_Witness ==
  /\ phase = "Loading"
  /\ lerr = "err"
  /\ Len(log) >= 3
  /\ log[Len(log)].t = "bad"
  /\ WellFormed(SubSeq(log, 1, Len(log) - 1))
  /\ Count(urls) >= 1

\* C9: a Get of a key that is not in the map returns "" and neither its
\* entry nor its read changes the map, the channel or the file.
C9_GetAbsent ==
  [][\A c \in Clients :
       /\ (pc[c] = "get_read" /\ pc'[c] = "get_ret" /\ arg[c] \notin DOMAIN urls)
            => (ret'[c] = "" /\ urls' = urls /\ save' = save /\ log' = log)
       /\ (pc[c] = "idle" /\ pc'[c] = "get_read")
            => (urls' = urls /\ save' = save /\ log' = log)]_vars

\* A Get of a key that was never put has returned "" from a map that is not empty.
C9_Witness ==
  \E c \in Clients :
    /\ pc[c] = "get_ret"
    /\ arg[c] = "nonexistent"
    /\ ret[c] = ""
    /\ Count(urls) >= 1

\* C10: for every well-formed file the writer leaves, replaying it a second
\* time into the map the first replay built changes nothing.
C10_IdempotentReplay ==
  WellFormed(log) =>
    Replay(log, Replay(log, EmptyMap)) = Replay(log, EmptyMap)

\* load has read a well-formed file of two records to its end: the map is
\* the replay of the file.
C10_Witness ==
  /\ phase = "Loading"
  /\ lerr = "EOF"
  /\ WellFormed(log)
  /\ Len(Records(log)) >= 2
  /\ urls = Replay(log, EmptyMap)
  /\ Count(urls) >= 2

\* C4: in every run that finds the file openable, when no append has ever
\* failed, every record that a Put of an earlier run returned and that
\* saveLoop appended before that run ended is answered by Get.
C4_RestartRoundTrip ==
  (phase = "Ready" /\ openable /\ nfails = 0) =>
    \A r \in prior : Get(urls, r[1]) = r[2]

\* C6: when the file cannot be opened or created, no Put and no Get returns.
C6_NoServiceAfterOpenFailure ==
  ~openable =>
    /\ returned = <<>>
    /\ \A c \in Clients : pc[c] # "get_ret"

\* The keys genKey can hand out within the bounds of the model.
KeySpace == {genKey(n) : n \in 0..MaxPuts}

\* No lost update and no key given twice: whenever no Put is under way, the
\* keys returned in this run are pairwise distinct and Count() is the count
\* at the start of the run plus the number of Puts that returned.
NoLostUpdate ==
  (phase = "Ready" /\ \A c \in Clients : ~InPut(c)) =>
    /\ Distinct(returned)
    /\ Count(urls) = count0 + Len(returned)

\* C1: on a Ready store whose file could be opened and where no append has
\* failed, every Put under way returns, and once all have returned their
\* keys are pairwise distinct and Count() is the count before plus their
\* number.
C1_ConcurrentPuts ==
  /\ []NoLostUpdate
  /\ \A c \in Clients :
       (phase = "Ready" /\ openable /\ nfails = 0 /\ InPut(c))
         ~> (~InPut(c) \/ phase # "Ready")

\* C3: on a Ready store whose file could be opened and where no append has
\* failed, a Put entered while the key space is larger than the number of
\* stored entries returns.
C3_PutTerminates ==
  \A c \in Clients :
    (phase = "Ready" /\ openable /\ nfails = 0 /\ pc[c] = "put"
       /\ Cardinality(KeySpace) > Count(urls))
      ~> (pc[c] = "idle" \/ phase # "Ready")

\* C7: with saveLoop scheduled fairly and no failed append in the run, the
\* i-th record sent to the channel becomes the i-th record appended to the
\* file in this run, unless the process ends first.
C7_EventuallyAppended ==
  \A i \in 1..MaxPuts :
    (phase = "Ready" /\ Len(returned) >= i)
      ~> \/ phase # "Ready"
         \/ failed # {}
         \/ (Len(RunRecords) >= i /\ RunRecords[i] = returned[i])

\* A Put has sent its record and returned while the record is neither
\* appended nor taken from the channel.
C7_Witness ==
  /\ phase = "Ready"
  /\ openable
  /\ failed = {}
  /\ \E c \in Clients : pc[c] = "idle"
  /\ Len(returned) >= 2
  /\ returned[Len(returned)] \in Range(save)
  /\ Len(RunRecords) < Len(returned)

\* The requests that are between Lock and Unlock in Set, and those that are
\* between RLock and RUnlock in Get or Count.
InSet == {c \in Clients : pc[c] = "put_set"}

Reading == {c \in Clients : pc[c] \in {"get_read", "put_count"}}

CheckAndInsert(m, n, key, url, ok) ==
  IF key \in DOMAIN m
    THEN ~ok /\ n = m /\ Count(n) = Count(m)
    ELSE /\ ok
         /\ DOMAIN n = DOMAIN m \cup {key}
         /\ n[key] = url
         /\ \A k \in DOMAIN m : n[k] = m[k]
         /\ Count(n) = Count(m) + 1

\* C12: every Set, in Put and in load, is a check-and-insert in one step:
\* on a present key it returns false and the map is unchanged, else it
\* returns true and the map is the old one plus exactly key -> url.
C12_SetCheckAndInsert ==
  [][/\ \A c \in Clients :
          (pc[c] = "put_set" /\ pc'[c] \in {"put", "put_send"})
            => CheckAndInsert(urls, urls', genKey(cnt[c]), arg[c],
                              pc'[c] = "put_send")
     /\ (phase = "Loading" /\ phase' = "Loading" /\ lerr = "nil" /\ lerr' = "nil")
          => LET r == Decode(log, lpos, lseen).r IN
               CheckAndInsert(urls, urls', r[1], r[2], r[1] \notin DOMAIN urls)]_vars

\* A Set inside Put has returned false on a key that is present with another
\* url: the Put is back at the top of its loop and the stored url is kept.
C12_Witness ==
  \E c \in Clients :
    /\ pc[c] = "put"
    /\ cnt[c] > 0
    /\ Present(urls, genKey(cnt[c]))
    /\ urls[genKey(cnt[c])] # arg[c]
    /\ Count(urls) = cnt[c] + 1

\* C13: within the life of one store (every step but the exit of the
\* process), a key that is in the map is in it after the step with the
\* same url: requests, load and saveLoop only ever add to the map.
C13_OnlyGrows ==
  [][restarts' = restarts =>
       \A k \in DOMAIN urls : k \in DOMAIN urls' /\ urls'[k] = urls[k]]_vars

\* A store that loaded a record from the file has since served a Put whose
\* record saveLoop appended; the loaded pair and the new one are in the map.
C13_Witness ==
  /\ phase = "Ready"
  /\ count0 >= 1
  /\ Len(returned) >= 1
  /\ Len(RunRecords) >= 1
  /\ Count(urls) = count0 + Len(returned)
  /\ \A r \in Range(returned) : Get(urls, r[1]) = r[2]
  /\ \A r \in Range(Records(SubSeq(log, 1, lpos))) : Get(urls, r[1]) = r[2]

\* The place of record r in sequence s.
Pos(s, r) == CHOOSE i \in DOMAIN s : s[i] = r

\* C14: the records are sent to the channel in the order in which their Sets
\* succeeded: of two records sent, the one sent first was inserted first.
C14_EnqueueInInsertOrder ==
  \A i, j \in DOMAIN returned :
    i < j => Pos(inserted, returned[i]) < Pos(inserted, returned[j])

IsPrefix(a, b) == Len(a) <= Len(b) /\ \A i \in DOMAIN a : a[i] = b[i]

\* C15: while the process runs and no append of this run has failed, the
\* records appended to the file in this run are a prefix of the records sent
\* to the channel in this run: same order, none twice, none skipped.
C15_AppendInEnqueueOrder ==
  (phase # "Uninitialized" /\ failed = {}) => IsPrefix(RunRecords, returned)

\* saveLoop has appended two records without a failure while a third one
\* has been sent and is not appended yet.
C15_Witness ==
  /\ phase = "Ready"
  /\ failed = {}
  /\ Len(RunRecords) >= 2
  /\ Len(returned) > Len(RunRecords)
  /\ IsPrefix(RunRecords, returned)

\* Map m is part of map n: every key of m is in n with the same url.
SubMap(m, n) == \A k \in DOMAIN m : k \in DOMAIN n /\ n[k] = m[k]

\* C16: whenever the store is serving, the map that the records of the file
\* as it is now replay to, decoded in order and Set into the empty map, is
\* part of the map in memory.
C16_LogWithinMemory ==
  phase = "Ready" => SubMap(Replay(log, EmptyMap), urls)

\* The records saveLoop holds or has dealt with in this run, then the channel:
\* how many it has encoded (appended or failed), and the one in its hands.
Encoded == Len(RunRecords) + Cardinality(failed)

InHand == IF wrec = NoRecord THEN <<>> ELSE <<wrec>>

\* The records whose Set succeeded and whose send is still to come.
Unsent == {record(genKey(cnt[c]), arg[c]) : c \in {d \in Clients : pc[d] = "put_send"}}

\* C17: the channel never holds more than saveQueueLength records; a Put
\* that has inserted can send exactly when the channel is not full and keeps
\* its record until then; and every record inserted by a Put of this run is
\* still to be sent or has been sent, the sent ones being, in order, those
\* saveLoop has encoded, the one in its hands and those in the channel.
C17_QueueBounded ==
  phase # "Uninitialized" =>
    /\ Len(save) <= saveQueueLength
    /\ \A c \in Clients :
         (phase = "Ready" /\ pc[c] = "put_send")
           => (ENABLED PutSend(c) <=> Len(save) < saveQueueLength)
    /\ Range(inserted) = Range(returned) \cup Unsent
    /\ Len(inserted) = Len(returned) + Cardinality(Unsent)
    /\ Encoded + Len(InHand) + Len(save) = Len(returned)
    /\ SubSeq(returned, Encoded + 1, Len(returned)) = InHand \o save

\* A Put that has inserted its record waits at the send: the channel is full.
C17_Witness ==
  \E c \in Clients :
    /\ phase = "Ready"
    /\ pc[c] = "put_send"
    /\ Len(save) = saveQueueLength
    /\ ~ENABLED PutSend(c)
    /\ record(genKey(cnt[c]), arg[c]) \in Range(inserted)
    /\ record(genKey(cnt[c]), arg[c]) \notin Range(returned)

\* Under FairSpec a Put that waits at the send of a full channel sends its
\* record, unless the process ends first.
BlockedPutSends ==
  \A c \in Clients :
    (phase = "Ready" /\ pc[c] = "put_send" /\ Len(save) = saveQueueLength)
      ~> (phase # "Ready" \/ pc[c] # "put_send")

\* C18: the step in which an append fails leaves saveLoop at its receive
\* and the map as it was, the record still answered by Get; every record
\* whose append failed in this run stays answered by Get; and once an append
\* has failed, every record sent is still taken from the channel and
\* appended (or its own append fails), unless the process ends first.
C18_FailedAppend ==
  /\ [][nfails' > nfails =>
          /\ wpc' = "recv"
          /\ urls' = urls
          /\ failed' = failed \cup {wrec}
          /\ Get(urls', wrec[1]) = wrec[2]]_vars
  /\ [](phase = "Ready" => \A r \in failed : Get(urls, r[1]) = r[2])
  /\ \A i \in 1..MaxPuts :
       (phase = "Ready" /\ failed # {} /\ Len(returned) >= i)
         ~> \/ phase # "Ready"
            \/ (Len(returned) >= i /\ returned[i] \in Range(RunRecords) \cup failed)

\* An append has failed, a record sent after the failed one has been
\* appended, and Get answers the failed record.
C18_Witness ==
  /\ phase = "Ready"
  /\ \E i, j \in DOMAIN returned :
       /\ i < j
       /\ returned[i] \in failed
       /\ returned[j] \in Range(RunRecords)
       /\ Get(urls, returned[i][1]) = returned[i][2]

\* A Put that has inserted and waits to send: the channel is full.
Blocked(c) == phase = "Ready" /\ pc[c] = "put_send" /\ Len(save) = saveQueueLength

\* C19: a Put at its send holds neither the read lock nor the write lock
\* (the write lock is held only by a request inside Set); and while a Put
\* waits on the full channel and no request is inside Set, every other
\* request can enter Get, and one inside Get or Count can finish it.
C19_SendOutsideLock ==
  \A c \in Clients :
    /\ pc[c] = "put_send" => (c \notin readers /\ (wlock <=> InSet # {}))
    /\ (Blocked(c) /\ InSet = {}) =>
         \A d \in Clients \ {c} :
           /\ pc[d] = "idle" => \A key \in AskKeys : ENABLED CallGet(d, key)
           /\ pc[d] = "get_read" => ENABLED GetRead(d)
           /\ pc[d] = "put" => ENABLED PutCountLock(d)
           /\ pc[d] = "put_count" => ENABLED PutCount(d)

\* While a Put waits on the full channel, another request is inside Get.
C19_Witness ==
  \E c, d \in Clients :
    /\ c # d
    /\ Blocked(c)
    /\ ~ENABLED PutSend(c)
    /\ pc[d] = "get_read"
    /\ d \in readers
    /\ ENABLED GetRead(d)

\* What load leaves in the map when it has run to its end on the file.
Loaded == IF openable THEN Replay(log, EmptyMap) ELSE EmptyMap

\* C20: while load is running saveLoop does not exist, nothing is appended
\* to the file, the channel is empty and no request is in progress or has
\* been served; load has ended whenever saveLoop exists or requests are
\* served; saveLoop is started only when load has ended, the map then being
\* all that load makes of the file; and no step of load changes the file.
C20_ReplayBeforeWriter ==
  /\ [](phase = "Loading" =>
          /\ wpc = "none"
          /\ Len(log) = logStart
          /\ save = <<>>
          /\ inserted = <<>>
          /\ returned = <<>>
          /\ \A c \in Clients : pc[c] = "idle")
  /\ []((phase = "Ready" \/ wpc # "none") => lerr # "nil")
  /\ [][/\ (phase = "Loading" /\ phase' = "Loading") => log' = log
        /\ (phase = "Loading" /\ phase' = "Ready") =>
             (lerr # "nil" /\ urls = Loaded /\ wpc = "none" /\ wpc' = "open")]_vars

\* load is under way on a file of two records: the first is in the map, the
\* second is still to be decoded, and saveLoop does not exist.
C20_Witness ==
  /\ phase = "Loading"
  /\ lerr = "nil"
  /\ Count(urls) >= 1
  /\ lpos < Len(log)
  /\ Decode(log, lpos, lseen).err = "nil"
  /\ wpc = "none"

\* The first n keys of the generator.
FirstKeys(n) == {genKey(i - 1) : i \in 1..n}

\* C21: in a store made from the empty file, in every state the keys in the
\* map are exactly the first len(urls) keys of the generator: a run of
\* ordinals without a gap, whatever the interleaving of the Puts.
C21_GapFreeKeys ==
  (phase # "Uninitialized" /\ logStart = 0) =>
    DOMAIN urls = FirstKeys(Cardinality(DOMAIN urls))

\* In a store made from the empty file three keys are in the map after
\* concurrent Puts: the Put that inserted second has sent first.
C21_Witness ==
  /\ phase = "Ready"
  /\ logStart = 0
  /\ Cardinality(DOMAIN urls) = 3
  /\ DOMAIN urls = FirstKeys(3)
  /\ Len(returned) >= 2
  /\ returned[1] = inserted[2]

====
